---- MODULE Spec2Model ----
(***************************************************************************)
(* Model of the chord difficulty engine of jazz-fretboard:                 *)
(*   src/chord_difficulty_scorer.py  ChordDifficultyScorer                 *)
(*   src/top_note_to_chord.py        the candidate scoring loop            *)
(*                                                                         *)
(* Strings keep the code's indices 0..5.  The unplayed entry (None in the  *)
(* search, -1 in the scorer's own examples) is the integer None: the       *)
(* scorer treats both alike (f is not None and f > 0).                     *)
(*                                                                         *)
(* analyze returns a float: every term is an integer except the position   *)
(* term, POSITION * sum(frets) / len(frets), with len(frets) in 1..6.  The *)
(* model holds every score multiplied by ScoreScale = 60, the least common *)
(* multiple of 1..6, so that the score is an exact integer.                *)
(*                                                                         *)
(* Texts (last_analysis_summary, the report) are tuples <<tag, a, b, c>>   *)
(* holding the tag of the format string and the values it interpolates.    *)
(***************************************************************************)
EXTENDS Integers, Sequences, FiniteSets, TLC

\* ------------------------------------------------------------------ bounds
\* Pressed frets of the scorer's inputs: 1..MaxFret and the one far fret HighFret.
MaxFret == 3
HighFret == 24
\* How many times analyze is called on one scorer object.
MaxCalls == 2
\* Pressed frets of the fingerings two scorers are built on: 1..MaxSharedFret.
MaxSharedFret == 2
\* How many candidates the search records before it selects the best.
MaxRecorded == 2

\* --------------------------------------------------------------- constants
None == -1
NumStrings == 6
Strings == 0 .. (NumStrings - 1)
ScoreScale == 60

W_FINGER_COUNT == 10
W_FRET_SPAN == 15
W_POSITION == 2
W_BARRE_BASE == 20
W_BARRE_LENGTH == 8
W_FINGER_CROSSING == 50
W_FRET_INVERSION == 200
W_IMPOSSIBLE_FINGERING == 10000

\* The empty text "" and the empty dict {}.
EmptyText == <<>>
EmptyDict == [s \in {} |-> 0]

\* ----------------------------------------------------------------- helpers
SetMin(S) == CHOOSE x \in S : \A y \in S : x <= y
SetMax(S) == CHOOSE x \in S : \A y \in S : x >= y

StringSeq == <<0, 1, 2, 3, 4, 5>>

\* sorted(...) of a set of string indices, as a sequence.
SortedSeq(S) == SelectSeq(StringSeq, LAMBDA x : x \in S)

\* The dict holding f[k] for the keys k of a sequence, built entry by entry.
RECURSIVE MakeDict(_, _)
MakeDict(keys, f) ==
    IF keys = <<>> THEN EmptyDict
    ELSE (Head(keys) :> f[Head(keys)]) @@ MakeDict(Tail(keys), f)

\* Python's float formatting rounds an exactly representable tie to even; the
\* quotients formatted here (a sum of frets over 1..6 notes, to 0 or 1 decimals)
\* tie only on quarters and halves, which are exact.
RoundHalfEven(num, den) ==
    LET q == num \div den
        r == num % den
    IN  IF 2 * r < den THEN q
        ELSE IF 2 * r > den THEN q + 1
        ELSE IF q % 2 = 0 THEN q ELSE q + 1

\* ---------------------------------------------------------- the scorer
\* __init__: notes_to_fret = {i: f for i, f in enumerate(fingering) if f is not None and f > 0}
notes_to_fret(fingering) ==
    MakeDict(SortedSeq({i \in Strings : fingering[i] # None /\ fingering[i] > 0}), fingering)

\* available_fingers = [1, 2, 3, 4]
AvailableFingers == <<1, 2, 3, 4>>

\* The fingers left for the other notes when pop(0) is forgotten
\* (index_finger = available_fingers[0]).
available_fingers_not_popped == AvailableFingers

\* index_finger = available_fingers.pop(0): the fingers left for the other notes.
available_fingers == Tail(AvailableFingers)

\* The anchor as the fret most strings are pressed at (the lowest of them on a tie).
most_frequent_fret(notes) ==
    LET count(b) == Cardinality({s \in DOMAIN notes : notes[s] = b})
        frets == {notes[s] : s \in DOMAIN notes}
    IN  SetMin({b \in frets : \A c \in frets : count(c) <= count(b)})

\* lowest_fret = min(notes_to_assign.values()): the anchor point.
lowest_fret(notes) == SetMin({notes[s] : s \in DOMAIN notes})

\* self.last_analysis_summary += text
append_summary(old, text) == old \o text

\* self.last_analysis_summary = text
set_summary(old, text) == text

\* _generate_assignment.  The result holds what the method returns (isNone: the
\* method returned None; assignment: the dict otherwise) and the value it leaves
\* in self.last_analysis_summary, given the value `summary` it found there.
generate_assignment(notes, summary) ==
    IF DOMAIN notes = {} THEN
        [isNone |-> FALSE, assignment |-> EmptyDict, last_analysis_summary |-> summary]
    ELSE
    LET lowest == lowest_fret(notes)
        anchor_notes_strings == {s \in DOMAIN notes : notes[s] = lowest}
        index_finger == Head(AvailableFingers)
        notes_to_assign == DOMAIN notes \ anchor_notes_strings
        min_s == SetMin(anchor_notes_strings)
        max_s == SetMax(anchor_notes_strings)
        blocked == {s \in notes_to_assign :
                        min_s < s /\ s < max_s /\ notes[s] < lowest}
        \* sorted(notes_to_assign.items(), key = (fret, string)): the 0-based rank
        rank(s) == Cardinality({t \in notes_to_assign :
                        notes[t] < notes[s] \/ (notes[t] = notes[s] /\ t < s)})
    IN  IF blocked # {} THEN
            \* the dict is walked in ascending string order: the first hit returns
            LET s_idx == SetMin(blocked) IN
            [isNone |-> TRUE, assignment |-> EmptyDict,
             last_analysis_summary |->
                 set_summary(summary, <<"ImpossibleBlocked", notes[s_idx], s_idx + 1, lowest>>)]
        ELSE IF Cardinality(notes_to_assign) > Len(available_fingers) THEN
            \* required_fingers = len(notes_to_assign) + 1
            [isNone |-> TRUE, assignment |-> EmptyDict,
             last_analysis_summary |->
                 set_summary(summary,
                     <<"ImpossibleFingers", Cardinality(notes_to_assign) + 1, 4, 0>>)]
        ELSE
            [isNone |-> FALSE,
             assignment |->
                 MakeDict(SortedSeq(DOMAIN notes),
                     [s \in DOMAIN notes |->
                         IF s \in anchor_notes_strings
                         THEN [fret |-> lowest, finger |-> index_finger]
                         ELSE [fret |-> notes[s],
                               finger |-> available_fingers[rank(s) + 1]]]),
             last_analysis_summary |-> summary]

\* The two G-major shapes of the manual override.
GMajorOpen == [s \in Strings |-> <<3, 2, 0, 0, 0, 3>>[s + 1]]
GMajorFull == [s \in Strings |-> <<3, 2, 0, 0, 3, 3>>[s + 1]]

IsOverride(fingering) == fingering \in {GMajorOpen, GMajorFull}

\* The override with the index finger's number mistyped as the middle finger's.
OverrideAssignment_typo(fingering) ==
    (0 :> [fret |-> 3, finger |-> 2]) @@ (1 :> [fret |-> 2, finger |-> 2])
    @@ (IF fingering[5] = 3 THEN 5 :> [fret |-> 3, finger |-> 3] ELSE EmptyDict)
    @@ (IF fingering[4] = 3 THEN 4 :> [fret |-> 3, finger |-> 4] ELSE EmptyDict)

\* The hand-written assignment of the override.
OverrideAssignment(fingering) ==
    (0 :> [fret |-> 3, finger |-> 2]) @@ (1 :> [fret |-> 2, finger |-> 1])
    @@ (IF fingering[5] = 3 THEN 5 :> [fret |-> 3, finger |-> 3] ELSE EmptyDict)
    @@ (IF fingering[4] = 3 THEN 4 :> [fret |-> 3, finger |-> 4] ELSE EmptyDict)

\* ------------------------------------------------- the weighted penalties
\* fingers_used = {d['finger'] for d in assignment.values()}
fingers_used(assignment) == {assignment[s].finger : s \in DOMAIN assignment}

\* The stretch the spec names: 4 frets (the search asks the library for max_spacing=4).
StretchThreshold == 4

\* The span clamped to the stretch threshold.
fret_span_clamped(assignment) ==
    LET frets == {assignment[s].fret : s \in DOMAIN assignment}
        span == SetMax(frets) - SetMin(frets)
    IN  IF span > StretchThreshold THEN StretchThreshold ELSE span

\* fret_span = max(frets) - min(frets)
fret_span(assignment) ==
    LET frets == {assignment[s].fret : s \in DOMAIN assignment}
    IN  SetMax(frets) - SetMin(frets)

\* sum(frets)
RECURSIVE SumFretsOf(_, _)
SumFretsOf(assignment, keys) ==
    IF keys = <<>> THEN 0
    ELSE assignment[Head(keys)].fret + SumFretsOf(assignment, Tail(keys))

\* finger_usage[f], and barres = {f: c for f, c in finger_usage.items() if c > 1}
finger_usage(assignment, f) == Cardinality({s \in DOMAIN assignment : assignment[s].finger = f})
barres(assignment) == {f \in fingers_used(assignment) : finger_usage(assignment, f) > 1}

\* barre_strings = sum(barres.values()) - len(barres): the strings that share
\* their finger with another string, less one per such finger
barre_strings(assignment) ==
    LET bs == barres(assignment)
    IN  Cardinality({s \in DOMAIN assignment : assignment[s].finger \in bs}) - Cardinality(bs)

\* The inversion penalty without the fret difference.
InversionPenalty_flat(d1, d2) ==
    IF d1.fret > d2.fret THEN W_FRET_INVERSION ELSE 0

\* d1['fret'] > d2['fret']: penalty = (d1['fret'] - d2['fret']) * FRET_INVERSION
InversionPenalty(d1, d2) ==
    IF d1.fret > d2.fret THEN (d1.fret - d2.fret) * W_FRET_INVERSION ELSE 0

\* d1['finger'] > d2['finger']: penalty = FINGER_CROSSING
CrossingPenalty(d1, d2) ==
    IF d1.finger > d2.finger THEN W_FINGER_CROSSING ELSE 0

\* The loop `for i in range(len(sorted_strings) - 1)` from index i on (1-based):
\* it pairs sorted_strings[i] with sorted_strings[i+1], its neighbour in the
\* ascending list of assigned strings.  One entry per iteration:
\* <<s1_idx, s2_idx, inversion penalty, crossing penalty>> (0: none).
RECURSIVE PairLoop(_, _, _)
PairLoop(assignment, sorted_strings, i) ==
    IF i >= Len(sorted_strings) THEN <<>>
    ELSE LET s1_idx == sorted_strings[i]
             s2_idx == sorted_strings[i + 1]
         IN  << <<s1_idx, s2_idx,
                  InversionPenalty(assignment[s1_idx], assignment[s2_idx]),
                  CrossingPenalty(assignment[s1_idx], assignment[s2_idx])>> >>
             \o PairLoop(assignment, sorted_strings, i + 1)

\* Every quantity analyze computes from the assignment before it adds it to the
\* score and logs it.
Penalties(assignment) ==
    LET sorted_strings == SortedSeq(DOMAIN assignment)
    IN  [fingers |-> Cardinality(fingers_used(assignment)),
         fret_span |-> fret_span(assignment),
         sum_frets |-> SumFretsOf(assignment, sorted_strings),
         len_frets |-> Len(sorted_strings),
         has_barre |-> barres(assignment) # {},
         barre_strings |-> barre_strings(assignment),
         pairs |-> PairLoop(assignment, sorted_strings, 1)]

RECURSIVE SumColumn(_, _)
SumColumn(rows, col) ==
    IF rows = <<>> THEN 0 ELSE Head(rows)[col] + SumColumn(Tail(rows), col)

\* What each factor adds to the score (the position term times ScoreScale).
FingerCountTerm(p) == p.fingers * W_FINGER_COUNT
FretSpanTerm(p) == p.fret_span * W_FRET_SPAN
\* The average taken over all six strings instead of the pressed ones.
PositionTermScaled_all_strings(p) == (ScoreScale * W_POSITION * p.sum_frets) \div NumStrings

\* avg_fret = sum(frets) / len(frets); score += avg_fret * POSITION
PositionTermScaled(p) == (ScoreScale * W_POSITION * p.sum_frets) \div p.len_frets
BarreTerm(p) ==
    IF p.has_barre THEN W_BARRE_BASE + p.barre_strings * W_BARRE_LENGTH ELSE 0
FretInversionTerm(p) == SumColumn(p.pairs, 3)
FingerCrossingTerm(p) == SumColumn(p.pairs, 4)

\* The score of a non-empty assignment, times ScoreScale.
WeightedScore(p) ==
    ScoreScale * (FingerCountTerm(p) + FretSpanTerm(p) + BarreTerm(p)
                  + FretInversionTerm(p) + FingerCrossingTerm(p))
        + PositionTermScaled(p)

\* ------------------------------------------------------------ the report
\* The lines the loop over neighbouring strings appends.
RECURSIVE PairLines(_)
PairLines(pairs) ==
    IF pairs = <<>> THEN <<>>
    ELSE LET row == Head(pairs)
         IN  (IF row[3] > 0
              THEN << <<"FretInversion", row[1] + 1, row[2] + 1, row[3]>> >> ELSE <<>>)
             \o (IF row[4] > 0
                 THEN << <<"FingerCrossing", row[1] + 1, row[2] + 1, row[4]>> >> ELSE <<>>)
             \o PairLines(Tail(pairs))

\* analysis_log, in the order analyze appends to it.
analysis_log(p) ==
    << <<"FingersUsed", p.fingers, FingerCountTerm(p), 0>> >>
    \o (IF p.fret_span > 0
        THEN << <<"FretSpan", p.fret_span, FretSpanTerm(p), 0>> >> ELSE <<>>)
    \* {avg_fret:.1f} (in tenths) and {avg_fret * POSITION:.0f}
    \o (IF p.sum_frets > 0
        THEN << <<"AverageFret", RoundHalfEven(10 * p.sum_frets, p.len_frets),
                  RoundHalfEven(W_POSITION * p.sum_frets, p.len_frets), 0>> >>
        ELSE <<>>)
    \o (IF p.has_barre
        THEN << <<"Barre", W_BARRE_BASE, 0, 0>>,
                <<"BarreLength", p.barre_strings, p.barre_strings * W_BARRE_LENGTH, 0>> >>
        ELSE <<>>)
    \o PairLines(p.pairs)

\* S{s+1}:F{fret}({finger}) for s, d in sorted(assignment.items())
RECURSIVE ProposedFrom(_, _)
ProposedFrom(assignment, keys) ==
    IF keys = <<>> THEN <<>>
    ELSE << <<Head(keys) + 1, assignment[Head(keys)].fret, assignment[Head(keys)].finger>> >>
         \o ProposedFrom(assignment, Tail(keys))
proposed_fingering_str(assignment) == ProposedFrom(assignment, SortedSeq(DOMAIN assignment))

\* ---------------------------------------------------------------- analyze
\* analyze on a scorer whose fields are fingering, notes (notes_to_fret) and
\* summary (last_analysis_summary): the pair it returns, the assignment it
\* scored, and the last_analysis_summary it leaves behind.
analyze(fingering, notes, summary) ==
    LET generated == IF IsOverride(fingering)
                     THEN [isNone |-> FALSE, assignment |-> OverrideAssignment(fingering),
                           last_analysis_summary |-> summary]
                     ELSE generate_assignment(notes, summary)
        assignment == generated.assignment
        left == generated.last_analysis_summary
        penalties == Penalties(assignment)
    IN  IF generated.isNone \/ DOMAIN assignment = {} THEN
            \* if not assignment: impossible (None) or empty ({})
            [score |-> IF left # EmptyText THEN ScoreScale * W_IMPOSSIBLE_FINGERING ELSE 0,
             summary |-> IF left # EmptyText
                         THEN [kind |-> "reason", reason |-> left,
                               proposed |-> <<>>, log |-> <<>>]
                         ELSE [kind |-> "NoNotes", reason |-> EmptyText,
                               proposed |-> <<>>, log |-> <<>>],
             scored |-> FALSE,
             assignment |-> EmptyDict,
             last_analysis_summary |-> left]
        ELSE
            [score |-> WeightedScore(penalties),
             summary |-> [kind |-> "report", reason |-> EmptyText,
                          proposed |-> proposed_fingering_str(assignment),
                          log |-> analysis_log(penalties)],
             scored |-> TRUE,
             assignment |-> assignment,
             last_analysis_summary |-> left]

\* ---------------------------------------------------------- the state
VARIABLES
    scorers,        \* the scorer objects: fields and the results analyze has returned
    fg,             \* the search: the fingering the library yielded
    cand_fgs_loss,  \* the search: dict candidate -> difficulty
    best_fingering, \* the search: the candidate selected (EmptyDict: none yet)
    pc              \* "scorer" (no search), or the search's place: "loop", "done", "failed"

vars == <<scorers, fg, cand_fgs_loss, best_fingering, pc>>

Frets == {None, 0} \cup (1 .. MaxFret) \cup {HighFret}
Fingerings == [Strings -> Frets]
SharedFingerings == [Strings -> {None, 0} \cup (1 .. MaxSharedFret)]
ScorerIds == {1, 2}
AllNone == [s \in Strings |-> None]

\* ChordDifficultyScorer(fingering): the object after __init__.
NewScorer(fingering) ==
    [fingering |-> fingering,
     notes_to_fret |-> notes_to_fret(fingering),
     last_analysis_summary |-> EmptyText,
     results |-> <<>>]

\* The object after one more call of analyze.
Analyzed(self) ==
    LET r == analyze(self.fingering, self.notes_to_fret, self.last_analysis_summary)
    IN  [self EXCEPT !.last_analysis_summary = r.last_analysis_summary,
                     !.results = Append(@, r)]

NoSearch ==
    /\ fg = AllNone
    /\ cand_fgs_loss = EmptyDict
    /\ best_fingering = EmptyDict
    /\ pc = "scorer"

\* A scorer constructed on any fingering (Spec calls scorer 1 only).
Init ==
    /\ \E f \in Fingerings : scorers = [s \in ScorerIds |-> NewScorer(f)]
    /\ NoSearch

\* Two scorers separately constructed on the same fingering.
InitShared ==
    /\ \E f \in SharedFingerings : scorers = [s \in ScorerIds |-> NewScorer(f)]
    /\ NoSearch

\* scorer.analyze(): the returned pair is appended to the results seen so far.
Analyze(id) ==
    /\ pc = "scorer"
    /\ Len(scorers[id].results) < MaxCalls
    /\ scorers' = [scorers EXCEPT ![id] = Analyzed(scorers[id])]
    /\ UNCHANGED <<fg, cand_fgs_loss, best_fingering, pc>>

Next == Analyze(1)

Spec == Init /\ [][Next]_vars

NextShared == \E id \in ScorerIds : Analyze(id)

SpecShared == InitShared /\ [][NextShared]_vars

\* ------------------------------------------------------------ the search
\* top_note_to_chord.py, for one chord and top note and one fingering of the
\* library's answer.  The library and is_optional_bad_fingering are external:
\* the library yields any fingering over LibFrets, and the filter drops any
\* of the candidates.
LoFret == 3
HiFret == 8
TopFret == 5
MaxNones == 3
LossLimit == 9999

LibFrets == {None, LoFret - 1, LoFret, HiFret, HiFret + 1}
\* The library's entry for the last string is dropped by fg[:-1]: one value stands for it.
LibFingerings == {f \in [Strings -> LibFrets] : f[NumStrings - 1] = None}

count_nones(t) == Cardinality({i \in Strings : t[i] = None})

\* fg_with_top_complete = fg[:-1] + [5]
fg_with_top_complete(f) == [i \in Strings |-> IF i = NumStrings - 1 THEN TopFret ELSE f[i]]

\* Everything the loops over (first_none, second_none) can add to fg_none_cands.
NoneCandidates(f) ==
    LET complete == fg_with_top_complete(f)
        one(first_none) == [complete EXCEPT ![first_none] = None]
        two(first_none, second_none) == [one(first_none) EXCEPT ![second_none] = None]
    IN  {complete}
        \cup {one(a) : a \in {a \in 0 .. 4 : count_nones(complete) < 2}}
        \cup {two(p[1], p[2]) :
                p \in {p \in (0 .. 4) \X (1 .. 5) :
                          /\ p[1] < p[2]
                          /\ count_nones(complete) < 2
                          /\ count_nones(one(p[1])) < 2}}

\* np.all(numbers >= 3) and np.all(numbers <= 8) and count_nones(fg_with_top) <= 3
PassedToScorer(c) ==
    /\ \A i \in Strings : c[i] # None => (c[i] >= LoFret /\ c[i] <= HiFret)
    /\ count_nones(c) <= MaxNones

\* difficulty <= IMPOSSIBLE_FINGERING
BelowLimit_inclusive(difficulty) == difficulty <= W_IMPOSSIBLE_FINGERING * ScoreScale

\* difficulty < 9999
BelowLimit(difficulty) == difficulty < LossLimit * ScoreScale

\* No scorer exists yet: scorers[1] holds the last scorer the loop built once its
\* results are not empty.
InitSearch ==
    /\ scorers = [s \in ScorerIds |-> NewScorer(AllNone)]
    /\ fg \in LibFingerings
    /\ cand_fgs_loss = EmptyDict
    /\ best_fingering = EmptyDict
    /\ pc = "loop"

\* One iteration of `for fg_with_top in fg_none_cands`, on a candidate the
\* filter kept.  The loop ends when the filter kept no more (SearchFailed,
\* SelectBest) and at the latest after MaxRecorded recorded candidates.
ScoreCandidate(fg_with_top) ==
    /\ pc = "loop"
    /\ Cardinality(DOMAIN cand_fgs_loss) < MaxRecorded
    /\ IF PassedToScorer(fg_with_top)
       THEN \* scorer = ChordDifficultyScorer(fg_with_top); difficulty, _ = scorer.analyze()
            \E scorer \in {Analyzed(NewScorer(fg_with_top))} :
            LET difficulty == scorer.results[1].score
            IN  /\ scorers' = [scorers EXCEPT ![1] = scorer]
                /\ cand_fgs_loss' =
                     IF BelowLimit(difficulty)
                     THEN [k \in DOMAIN cand_fgs_loss \cup {fg_with_top} |->
                              IF k = fg_with_top THEN difficulty ELSE cand_fgs_loss[k]]
                     ELSE cand_fgs_loss
       ELSE UNCHANGED <<scorers, cand_fgs_loss>>
    /\ UNCHANGED <<fg, best_fingering, pc>>

\* if not cand_fgs_loss: search failed
SearchFailed ==
    /\ pc = "loop"
    /\ DOMAIN cand_fgs_loss = {}
    /\ pc' = "failed"
    /\ UNCHANGED <<scorers, fg, cand_fgs_loss, best_fingering>>

\* best_fingering = min(cand_fgs_loss, key=...): the first minimum in the dict's
\* order, which is the order a set of tuples was walked in: any of the minima.
SelectBest ==
    /\ pc = "loop"
    /\ DOMAIN cand_fgs_loss # {}
    /\ \E b \in DOMAIN cand_fgs_loss :
          /\ \A o \in DOMAIN cand_fgs_loss : cand_fgs_loss[b] <= cand_fgs_loss[o]
          /\ best_fingering' = b
    /\ pc' = "done"
    /\ UNCHANGED <<scorers, fg, cand_fgs_loss>>

NextSearch ==
    \/ \E c \in NoneCandidates(fg) : ScoreCandidate(c)
    \/ SearchFailed
    \/ SelectBest

SpecSearch == InitSearch /\ [][NextSearch]_vars

\* ------------------------------------------------------------- the claims
\* What the claims read: the fingering scorer 1 was built on and what its first
\* call of analyze returned.
Called == pc = "scorer" /\ scorers[1].results # <<>>
Fingering1 == scorers[1].fingering
Result1 == scorers[1].results[1]
Sentinel == ScoreScale * W_IMPOSSIBLE_FINGERING

\* The strings of a fingering that are pressed, and their frets.
Pressed(f) == {i \in Strings : f[i] > 0}
PressedFrets(f) == {f[i] : i \in Pressed(f)}
PressedSpan(f) == IF Pressed(f) = {} THEN 0 ELSE SetMax(PressedFrets(f)) - SetMin(PressedFrets(f))
CountAt(f, b) == Cardinality({i \in Pressed(f) : f[i] = b})
\* The pressed strings above the lowest pressed fret.
AboveLowest(f) == {i \in Pressed(f) : f[i] # SetMin(PressedFrets(f))}
\* The most frequent fret values among the pressed strings.
MostFrequent(f) == {b \in PressedFrets(f) : \A c \in PressedFrets(f) : CountAt(f, c) <= CountAt(f, b)}

IsVerdict(r, tag) == r.summary.kind = "reason" /\ r.summary.reason[1] = tag
IsImpossible(r) == r.summary.kind = "reason"
LogLines(r, tag) == SelectSeq(r.summary.log, LAMBDA line : line[1] = tag)

\* Middle, ring, pinky in ascending (fret, string) order over the strings `rest`.
InFretStringOrder(f, assignment, rest) ==
    \A s \in rest :
        assignment[s].finger =
            2 + Cardinality({t \in rest : f[t] < f[s] \/ (f[t] = f[s] /\ t < s)})

C2_BlockedByBarre ==
    Called /\ (\E b \in PressedFrets(Fingering1) :
                  /\ CountAt(Fingering1, b) >= 4
                  /\ \E i \in Pressed(Fingering1) : Fingering1[i] < b)
        => /\ Result1.score = Sentinel
           /\ IsVerdict(Result1, "ImpossibleBlocked")

C4_SentinelIsCeiling ==
    Called /\ Result1.scored => Result1.score < Sentinel

\* ---- C5 ----
\* C5: with exactly one pressed string, at fret f, the score is exactly
\* FINGER_COUNT x 1 + POSITION x f and the report holds those two terms only.
C5_SinglePressedString ==
    Called /\ Cardinality(Pressed(Fingering1)) = 1 =>
        LET f == CHOOSE b \in PressedFrets(Fingering1) : TRUE
        IN  /\ Result1.scored
            /\ Result1.score = ScoreScale * (W_FINGER_COUNT + W_POSITION * f)
            /\ Result1.summary.log =
                  << <<"FingersUsed", 1, W_FINGER_COUNT, 0>>,
                     <<"AverageFret", 10 * f, W_POSITION * f, 0>> >>

\* One string pressed, at the far fret, and analysed.
C5_Witness ==
    /\ Called
    /\ Cardinality(Pressed(Fingering1)) = 1
    /\ PressedFrets(Fingering1) = {HighFret}

\* ---- C6 ----
\* C6: in every assignment analyze scores, heuristic or override, every pressed
\* string appears exactly once, at its own fret, and strings that share a finger
\* are pressed at the identical fret.
C6_BarreOnlyOnOneFret ==
    Called /\ Result1.scored =>
        LET a == Result1.assignment IN
        /\ DOMAIN a = Pressed(Fingering1)
        /\ \A s \in DOMAIN a : a[s].fret = Fingering1[s] /\ a[s].finger \in 1 .. 4
        /\ \A s, t \in DOMAIN a : a[s].finger = a[t].finger => a[s].fret = a[t].fret
        /\ Len(Result1.summary.proposed) = Cardinality(Pressed(Fingering1))

\* The override's assignment was scored.
C6_Witness ==
    /\ Called
    /\ Fingering1 = GMajorFull
    /\ Result1.scored
    /\ Cardinality(DOMAIN Result1.assignment) = 4

InversionReported(r) == SumColumn(LogLines(r, "FretInversion"), 4)
RECURSIVE InvertedDistance(_, _)
InvertedDistance(f, pairs) ==
    IF pairs = {} THEN 0
    ELSE LET p == CHOOSE q \in pairs : TRUE
         IN  (IF f[p[1]] > f[p[2]] THEN f[p[1]] - f[p[2]] ELSE 0)
             + InvertedDistance(f, pairs \ {p})
AllPairs(f) == {p \in Pressed(f) \X Pressed(f) : p[1] < p[2]}
\* Neighbours in the ascending list of pressed strings: no pressed string between.
NeighbourPairs(f) == {p \in AllPairs(f) : ~\E k \in Pressed(f) : p[1] < k /\ k < p[2]}

\* C9 as stated: the contribution is FRET_INVERSION times the inverted distance
\* summed over every pair of pressed strings i < j, adjacent or not.
C9_InversionOverAllPairs ==
    Called /\ Result1.scored =>
        InversionReported(Result1)
            = W_FRET_INVERSION * InvertedDistance(Fingering1, AllPairs(Fingering1))

\* C9 amended: the contribution is FRET_INVERSION times the inverted distance
\* summed over the pairs of neighbouring pressed strings only (consecutive in the
\* ascending list of pressed strings, whether or not an unpressed string lies
\* between them); a violating pair with another pressed string between its two
\* strings is not penalised on its own.
C9_InversionOverNeighbours ==
    Called /\ Result1.scored =>
        /\ InversionReported(Result1)
              = W_FRET_INVERSION * InvertedDistance(Fingering1, NeighbourPairs(Fingering1))
        /\ Result1.score >= ScoreScale * InversionReported(Result1)

\* A scored shape with an inverted pair that is not a pair of neighbours.
C9_Witness ==
    /\ Called
    /\ Result1.scored
    /\ \E p \in AllPairs(Fingering1) \ NeighbourPairs(Fingering1) :
          Fingering1[p[1]] > Fingering1[p[2]]
    /\ InversionReported(Result1) > 0

\* ---- C7 ----
\* What a caller of analyze sees: the score and the report text.
Returned(r) == <<r.score, r.summary>>
AllResults == {<<id, k>> : id \in ScorerIds, k \in 1 .. MaxCalls + 1}
HasResult(c) == c[2] <= Len(scorers[c[1]].results)
ResultOf(c) == scorers[c[1]].results[c[2]]

\* C7: every call of analyze on the same fingering, whether a later call on one
\* scorer or a call on a separately constructed scorer, returns the identical
\* score and report; the last_analysis_summary a call leaves behind is the text
\* of that call alone.
C7_SameFingeringSameResult ==
    pc = "scorer" =>
        /\ \A c, d \in AllResults :
              HasResult(c) /\ HasResult(d) => Returned(ResultOf(c)) = Returned(ResultOf(d))
        /\ \A id \in ScorerIds :
              /\ scorers[id].fingering = scorers[1].fingering
              /\ scorers[id].results # <<>> =>
                    scorers[id].last_analysis_summary =
                       scorers[id].results[1].last_analysis_summary

\* An impossible shape analysed twice on scorer 1 and once on scorer 2.
C7_Witness ==
    /\ pc = "scorer"
    /\ Len(scorers[1].results) = 2
    /\ Len(scorers[2].results) >= 1
    /\ IsImpossible(scorers[1].results[2])
    /\ scorers[1].last_analysis_summary # EmptyText

\* ---- C10 ----
SearchScored == pc # "scorer" /\ scorers[1].results # <<>>
\* The last candidate the loop passed to the scorer, and what analyze returned.
LastCandidate == scorers[1].fingering
LastResult == scorers[1].results[1]
\* More strings above the lowest pressed fret than middle, ring and pinky can hold.
TooManyFingers(f) == Cardinality(AboveLowest(f)) > 3

\* C10: in the search, every candidate passed to the scorer has its played frets
\* in 3..8 and at most 3 unplayed strings; for such a candidate the score is below
\* 9999 exactly when the verdict is not an impossibility; a candidate with an
\* impossibility verdict is never in cand_fgs_loss and never best_fingering; a
\* playable candidate that was scored is recorded with its score; best_fingering
\* is a recorded candidate of minimal difficulty.
C10_SearchFilter ==
    /\ SearchScored =>
          /\ \A i \in Strings : LastCandidate[i] = -1 \/ LastCandidate[i] \in 3 .. 8
          /\ Cardinality({i \in Strings : LastCandidate[i] = -1}) <= 3
          /\ LastCandidate[5] \in {-1, 5}
          /\ (LastResult.score < 9999 * ScoreScale) <=> ~IsImpossible(LastResult)
          /\ IsImpossible(LastResult) <=> TooManyFingers(LastCandidate)
          /\ IsImpossible(LastResult) => LastCandidate \notin DOMAIN cand_fgs_loss
          /\ ~IsImpossible(LastResult) =>
                /\ LastCandidate \in DOMAIN cand_fgs_loss
                /\ cand_fgs_loss[LastCandidate] = LastResult.score
    /\ \A c \in DOMAIN cand_fgs_loss :
          /\ ~TooManyFingers(c)
          /\ cand_fgs_loss[c] < 9999 * ScoreScale
          /\ cand_fgs_loss[c] = analyze(c, notes_to_fret(c), EmptyText).score
    /\ pc = "done" =>
          /\ best_fingering \in DOMAIN cand_fgs_loss
          /\ ~TooManyFingers(best_fingering)
          /\ \A c \in DOMAIN cand_fgs_loss : cand_fgs_loss[best_fingering] <= cand_fgs_loss[c]
    /\ pc = "failed" => cand_fgs_loss = EmptyDict /\ best_fingering = EmptyDict

\* The search chose a best fingering although the last candidate it scored was
\* impossible and so left out.
C10_Witness ==
    /\ pc = "done"
    /\ SearchScored
    /\ IsImpossible(LastResult)
    /\ LastResult.score = Sentinel
    /\ Cardinality(DOMAIN cand_fgs_loss) = 1
    /\ best_fingering # LastCandidate
====
